---- MODULE Spec2Model ----
(***************************************************************************)
(* Lorenz 63 model, forward Euler scheme (src/rust/lorenz-63/lorenz.rs).   *)
(*                                                                         *)
(* The program computes in f64.  An f64 is modelled by its exact value:    *)
(* a record [k, s, m, e] standing for (-1)^s * m * 2^e, with m a natural   *)
(* number of at most 53 bits held as a little-endian sequence of limbs,    *)
(* and every operation rounds its exact result to nearest, ties to even,   *)
(* as IEEE 754 binary64 does.                                              *)
(***************************************************************************)
EXTENDS Integers, Sequences, FiniteSets, TLC

(***************************************************************************)
(* TLC evaluates an argument each time an operator's body names it.        *)
(* The({e : a \in {p}}) is e with a the value of p: p is evaluated once.   *)
(***************************************************************************)
The(S) == CHOOSE v \in S : TRUE

(***************************************************************************)
(* Natural numbers of any size: little-endian limbs, no leading zero limb. *)
(***************************************************************************)
RECURSIVE IntBits(_)
IntBits(n) == IF n = 0 THEN 0 ELSE 1 + IntBits(n \div 2)

Base == 2^15
LimbBits == IntBits(Base - 1)

Max(a, b) == IF a >= b THEN a ELSE b
Min(a, b) == IF a <= b THEN a ELSE b

Limb(a, k) == IF k <= Len(a) THEN a[k] ELSE 0

Zeros(n) == [j \in 1..n |-> 0]

RECURSIVE BNorm(_)
BNorm(p) ==
    The({ IF a = <<>> THEN <<>>
          ELSE IF a[Len(a)] = 0 THEN BNorm(SubSeq(a, 1, Len(a) - 1))
          ELSE a : a \in {p} })

RECURSIVE FromNat(_)
FromNat(n) == IF n = 0 THEN <<>> ELSE <<n % Base>> \o FromNat(n \div Base)

\* the limbs of a + b + c from limb k on
RECURSIVE BAddC(_, _, _, _)
BAddC(a, b, k, c) ==
    IF k > Len(a) /\ k > Len(b)
    THEN IF c = 0 THEN <<>> ELSE <<c>>
    ELSE The({ <<t % Base>> \o BAddC(a, b, k + 1, t \div Base) :
               t \in {Limb(a, k) + Limb(b, k) + c} })

BAdd(p, q) == The({ BAddC(a, b, 1, 0) : a \in {p}, b \in {q} })

\* the limbs of a - b - c from limb k on, a >= b
RECURSIVE BSubC(_, _, _, _)
BSubC(a, b, k, c) ==
    IF k > Len(a) THEN <<>>
    ELSE The({ IF t < 0 THEN <<t + Base>> \o BSubC(a, b, k + 1, 1)
               ELSE <<t>> \o BSubC(a, b, k + 1, 0) :
               t \in {a[k] - Limb(b, k) - c} })

BSub(p, q) == The({ BNorm(BSubC(a, b, 1, 0)) : a \in {p}, b \in {q} })

\* -1, 0, 1 as a < b, a = b, a > b
RECURSIVE BCmpAt(_, _, _)
BCmpAt(a, b, k) ==
    IF k = 0 THEN 0
    ELSE IF a[k] < b[k] THEN -1
    ELSE IF a[k] > b[k] THEN 1
    ELSE BCmpAt(a, b, k - 1)

BCmp(p, q) ==
    The({ IF Len(a) < Len(b) THEN -1
          ELSE IF Len(a) > Len(b) THEN 1
          ELSE BCmpAt(a, b, Len(a)) : a \in {p}, b \in {q} })

\* a * n for 0 <= n <= Base
RECURSIVE BMulSmallC(_, _, _, _)
BMulSmallC(a, n, k, c) ==
    IF k > Len(a)
    THEN IF c = 0 THEN <<>> ELSE <<c>>
    ELSE The({ <<t % Base>> \o BMulSmallC(a, n, k + 1, t \div Base) :
               t \in {a[k] * n + c} })

BMulSmall(p, m) ==
    The({ IF n = 0 THEN <<>> ELSE BMulSmallC(a, n, 1, 0) : a \in {p}, n \in {m} })

RECURSIVE BMulAt(_, _, _)
BMulAt(a, b, k) ==
    IF k > Len(a) THEN <<>>
    ELSE The({ BAdd(IF row = <<>> THEN <<>> ELSE Zeros(k - 1) \o row,
                    BMulAt(a, b, k + 1)) :
               row \in {BMulSmall(b, a[k])} })

BMul(p, q) == The({ BMulAt(a, b, 1) : a \in {p}, b \in {q} })

\* quotient and remainder of a by n, 1 <= n <= Base, from limb k down with
\* the remainder r carried in
RECURSIVE BDivSmallAt(_, _, _, _)
BDivSmallAt(a, n, k, r) ==
    IF k = 0 THEN [q |-> <<>>, r |-> r]
    ELSE The({ The({ [q |-> rest.q \o <<t \div n>>, r |-> rest.r] :
                     rest \in {BDivSmallAt(a, n, k - 1, t % n)} }) :
               t \in {r * Base + a[k]} })

BDivSmall(p, m) ==
    The({ The({ [q |-> BNorm(d.q), r |-> d.r] :
                d \in {BDivSmallAt(a, n, Len(a), 0)} }) :
          a \in {p}, n \in {m} })

\* a * 2^n
BShl(p, m) ==
    The({ IF a = <<>> THEN <<>>
          ELSE Zeros(n \div LimbBits) \o BMulSmall(a, 2^(n % LimbBits)) :
          a \in {p}, n \in {m} })

\* floor(a / 2^n)
BShr(p, m) ==
    The({ IF n \div LimbBits >= Len(a) THEN <<>>
          ELSE BDivSmall(SubSeq(a, n \div LimbBits + 1, Len(a)),
                         2^(n % LimbBits)).q :
          a \in {p}, n \in {m} })

\* a mod 2^n = 0
BLowZero(p, m) ==
    The({ /\ \A k \in 1..Min(n \div LimbBits, Len(a)) : a[k] = 0
          /\ (n \div LimbBits < Len(a)
                => a[n \div LimbBits + 1] % 2^(n % LimbBits) = 0) :
          a \in {p}, n \in {m} })

BOdd(p) == The({ a # <<>> /\ a[1] % 2 = 1 : a \in {p} })

BitLen(p) ==
    The({ IF a = <<>> THEN 0
          ELSE (Len(a) - 1) * LimbBits + IntBits(a[Len(a)]) : a \in {p} })

(***************************************************************************)
(* f64: IEEE 754 binary64.  A finite value is [k |-> "num", s, m, e] with  *)
(* value (-1)^s * m * 2^e in canonical form: a normal number has a 53-bit  *)
(* m and MinExp <= e <= MaxExp, a subnormal has e = MinExp and a shorter   *)
(* m, zero has m = <<>> and e = MinExp.  Equal records are equal bit       *)
(* patterns (one NaN stands for all NaN payloads).                         *)
(***************************************************************************)
MantBits == 53
MinExp == -1074
MaxExp == 971

Num(s, m, e) == [k |-> "num", s |-> s, m |-> m, e |-> e]
Zero(s) == Num(s, <<>>, MinExp)
Inf(s) == [k |-> "inf", s |-> s, m |-> <<>>, e |-> 0]
NaN == [k |-> "nan", s |-> 0, m |-> <<>>, e |-> 0]

IsZero(a) == a.k = "num" /\ a.m = <<>>

\* m * 2^q with the last n bits of m rounded off, to nearest, ties to even:
\* the mantissa and the exponent, before the exponent range is looked at
RoundOff(m, n, q) ==
    The({ The({ IF BitLen(m1) > MantBits THEN <<BShr(m1, 1), q + 1>>
                ELSE <<m1, q>> :
                m1 \in { IF BOdd(BShr(m, n - 1)) /\ (~BLowZero(m, n - 1) \/ BOdd(m0))
                         THEN BAdd(m0, <<1>>) ELSE m0 } }) :
          m0 \in {BShr(m, n)} })

\* (-1)^s * m * 2^e, any natural m and integer e, rounded to the nearest f64,
\* ties to even; overflow gives an infinity
Round(s, p, e0) ==
    The({ IF m = <<>> THEN Zero(s)
          ELSE LET q == Max(e + BitLen(m) - MantBits, MinExp)
               IN  IF q <= e
                   THEN (IF q > MaxExp THEN Inf(s) ELSE Num(s, BShl(m, e - q), q))
                   ELSE The({ IF r[2] > MaxExp THEN Inf(s) ELSE Num(s, r[1], r[2]) :
                              r \in {RoundOff(m, q - e, q)} }) :
          m \in {p}, e \in {e0} })

Neg(p) == The({ IF a.k = "nan" THEN a ELSE [a EXCEPT !.s = 1 - a.s] : a \in {p} })

\* a + b for finite nonzero a and b
AddNum(a, b) ==
    The({ The({ IF a.s = b.s THEN Round(a.s, BAdd(am, bm), e)
                ELSE IF BCmp(am, bm) = 0 THEN Zero(0)
                ELSE IF BCmp(am, bm) > 0 THEN Round(a.s, BSub(am, bm), e)
                ELSE Round(b.s, BSub(bm, am), e) :
                am \in {BShl(a.m, a.e - e)}, bm \in {BShl(b.m, b.e - e)} }) :
          e \in {Min(a.e, b.e)} })

\* a + b
Add(p, q) ==
    The({ IF a.k = "nan" \/ b.k = "nan" THEN NaN
          ELSE IF a.k = "inf" /\ b.k = "inf" THEN (IF a.s = b.s THEN a ELSE NaN)
          ELSE IF a.k = "inf" THEN a
          ELSE IF b.k = "inf" THEN b
          ELSE IF IsZero(a) /\ IsZero(b)
               THEN Zero(IF a.s = 1 /\ b.s = 1 THEN 1 ELSE 0)
          ELSE IF IsZero(a) THEN b
          ELSE IF IsZero(b) THEN a
          \* an operand below a quarter of the other's last place rounds away
          ELSE IF a.e - b.e >= MantBits + 2 THEN a
          ELSE IF b.e - a.e >= MantBits + 2 THEN b
          ELSE AddNum(a, b) : a \in {p}, b \in {q} })

\* a - b
Sub(a, b) == Add(a, Neg(b))

\* a * b
Mul(p, q) ==
    The({ IF a.k = "nan" \/ b.k = "nan" THEN NaN
          ELSE IF a.k = "inf" \/ b.k = "inf"
               THEN (IF IsZero(a) \/ IsZero(b) THEN NaN ELSE Inf((a.s + b.s) % 2))
          ELSE Round((a.s + b.s) % 2, BMul(a.m, b.m), a.e + b.e) :
          a \in {p}, b \in {q} })

\* n as f64, n >= 0
FromInt(n) == Round(0, FromNat(n), 0)

\* the f64 nearest to n / d for integers n >= 0 and 1 <= d <= Base: the quotient
\* of two exactly represented integers, and the value of a decimal literal
GuardBits == 4 * LimbBits
Ratio(n, d) ==
    The({ Round(0, BAdd(BShl(qr.q, 1), IF qr.r = 0 THEN <<>> ELSE <<1>>),
                -(MantBits + GuardBits + 1)) :
          qr \in {BDivSmall(BShl(FromNat(n), MantBits + GuardBits), d)} })

(***************************************************************************)
(* Formatting.  {:.d} prints the exact value rounded to d decimal places   *)
(* (ties to even): [neg, int, frac] holds the sign and the decimal digits  *)
(* before and after the point.  {:?} prints the shortest decimal that      *)
(* reads back as the same f64, so it stands for the f64 itself.            *)
(***************************************************************************)
RECURSIVE Digits(_)
Digits(n) ==
    The({ IF a = <<>> THEN <<>>
          ELSE The({ Digits(qr.q) \o <<qr.r>> : qr \in {BDivSmall(a, 10)} }) :
          a \in {n} })

\* the natural number nearest to m * 2^e, ties to even
RoundNat(p, e) ==
    The({ IF e >= 0 THEN BShl(m, e)
          ELSE The({ IF BOdd(BShr(m, -e - 1)) /\ (~BLowZero(m, -e - 1) \/ BOdd(m0))
                     THEN BAdd(m0, <<1>>) ELSE m0 :
                     m0 \in {BShr(m, -e)} }) :
          m \in {p} })

Fixed(p, d) ==
    The({ IF a.k # "num" THEN [neg |-> a.s = 1, int |-> a.k, frac |-> <<>>]
          ELSE The({ The({ [neg  |-> a.s = 1,
                            int  |-> SubSeq(pad, 1, Len(pad) - d),
                            frac |-> SubSeq(pad, Len(pad) - d + 1, Len(pad))] :
                           pad \in { IF Len(ds) > d THEN ds
                                     ELSE Zeros(d + 1 - Len(ds)) \o ds } }) :
                     ds \in {Digits(RoundNat(BMul(a.m, FromNat(10^d)), a.e))} }) :
          a \in {p} })

Debug(a) == a

Line(kind, label, vals) == [kind |-> kind, label |-> label, vals |-> vals]

(***************************************************************************)
(* The program: fn main.  Its locals are the variables; pc is "start"      *)
(* before line 12, "loop" at the head of the for loop, "done" after it; i  *)
(* is the next value the range 1..100 yields; out is standard output, one  *)
(* entry per line printed.                                                 *)
(***************************************************************************)
VARIABLES RHO, SIGMA, BETA, x, y, z, dx, dy, dz, dt, i, pc, out, twin

vars == <<RHO, SIGMA, BETA, x, y, z, dx, dy, dz, dt, i, pc, out, twin>>

\* a declared local that holds no value yet: let (mut dx, mut dy, mut dz);
Uninit == [k |-> "uninit"]

LoopStart == 1
\* the inclusive range 1..=100
LoopEndInclusive == 100 + 1
LoopEnd == 100

\* the locals as one record, and the record put back into the locals
Cur ==
    [RHO |-> RHO, SIGMA |-> SIGMA, BETA |-> BETA, x |-> x, y |-> y, z |-> z,
     dx |-> dx, dy |-> dy, dz |-> dz, dt |-> dt, i |-> i, pc |-> pc, out |-> out]

Load(p) ==
    \E t \in {p} :
        /\ RHO' = t.RHO /\ SIGMA' = t.SIGMA /\ BETA' = t.BETA
        /\ x' = t.x /\ y' = t.y /\ z' = t.z
        /\ dx' = t.dx /\ dy' = t.dy /\ dz' = t.dz
        /\ dt' = t.dt /\ i' = t.i /\ pc' = t.pc /\ out' = t.out

\* the constants with the conventional Lorenz roles (sigma 10, rho 28, beta 8/3)
LocalsRelabelled ==
    [RHO |-> FromInt(28), SIGMA |-> FromInt(10), BETA |-> Ratio(8, 3),
     x |-> FromInt(1), y |-> FromInt(1), z |-> FromInt(1),
     dx |-> Uninit, dy |-> Uninit, dz |-> Uninit,
     dt |-> Ratio(1, 1000), i |-> LoopStart, pc |-> "start", out |-> <<>>]

\* the time step written as the integer quotient 1 / 1000
LocalsZeroStep ==
    [RHO |-> FromInt(10), SIGMA |-> Ratio(8, 3), BETA |-> FromInt(28),
     x |-> FromInt(1), y |-> FromInt(1), z |-> FromInt(1),
     dx |-> Uninit, dy |-> Uninit, dz |-> Uninit,
     dt |-> FromInt(0), i |-> LoopStart, pc |-> "start", out |-> <<>>]

\* lines 4-10, and the range of line 19
Locals ==
    [RHO |-> FromInt(10), SIGMA |-> Ratio(8, 3), BETA |-> FromInt(28),
     x |-> FromInt(1), y |-> FromInt(1), z |-> FromInt(1),
     dx |-> Uninit, dy |-> Uninit, dz |-> Uninit,
     dt |-> Ratio(1, 1000), i |-> LoopStart, pc |-> "start", out |-> <<>>]

\* lines 12-16
Banner(p) ==
    The({ [s EXCEPT
             !.out = s.out \o
                << Line("text", "Lorenz 63 model", <<>>),
                   Line("param", "Prandtl number = ", <<Debug(s.RHO)>>),
                   Line("param", "Rayleigh number = ", <<Fixed(s.SIGMA, 8)>>),
                   Line("param", "beta = ", <<Debug(s.BETA)>>),
                   Line("init", "The initial state is at ",
                        <<Debug(s.x), Debug(s.y), Debug(s.z)>>) >>,
             !.pc = "loop"] : s \in {p} })

\* the statements of the loop body, lines 20-26
S20(p) == The({ [s EXCEPT !.dx = Mul(s.SIGMA, Sub(s.y, s.x))] : s \in {p} })
S21(p) == The({ [s EXCEPT !.dy = Sub(Mul(s.x, Sub(s.RHO, s.z)), s.y)] : s \in {p} })
S22(p) == The({ [s EXCEPT !.dz = Sub(Mul(s.x, s.y), Mul(s.BETA, s.z))] : s \in {p} })
\* the update of line 23 stored into the wrong local
S23IntoDt(p) == The({ [s EXCEPT !.dt = Add(s.x, Mul(s.dt, s.dx))] : s \in {p} })
S23(p) == The({ [s EXCEPT !.x = Add(s.x, Mul(s.dt, s.dx))] : s \in {p} })
S24(p) == The({ [s EXCEPT !.y = Add(s.y, Mul(s.dt, s.dy))] : s \in {p} })
S25(p) == The({ [s EXCEPT !.z = Add(s.z, Mul(s.dt, s.dz))] : s \in {p} })
\* the elapsed time counted from zero
S26ZeroBased(p) ==
    The({ [s EXCEPT
             !.out = Append(s.out,
                       Line("step", "t = ",
                            << Fixed(Mul(FromInt(s.i - 1), s.dt), 3),
                               Fixed(s.x, 8), Fixed(s.y, 8), Fixed(s.z, 8) >>))] :
          s \in {p} })
S26(p) ==
    The({ [s EXCEPT
             !.out = Append(s.out,
                       Line("step", "t = ",
                            << Fixed(Mul(FromInt(s.i), s.dt), 3),
                               Fixed(s.x, 8), Fixed(s.y, 8), Fixed(s.z, 8) >>))] :
          s \in {p} })

\* the range hands out the next index
Advance(p) == The({ [s EXCEPT !.i = s.i + 1] : s \in {p} })

\* the sequential update: each coordinate is updated right after its own
\* derivative, so dy reads the new x and dz reads the new x and y
BodySeq(s) == Advance(S26(S25(S22(S24(S21(S23(S20(s))))))))

\* only dz is computed after x and y are updated
BodyLateZ(s) == Advance(S26(S25(S22(S24(S23(S21(S20(s))))))))

\* the updates of lines 23-25 placed before the derivatives of lines 20-22
BodyUpdateFirst(s) == Advance(S26(S22(S21(S20(S25(S24(S23(s))))))))

\* one pass of the loop, lines 19-27
Body(s) == Advance(S26(S25(S24(S23(S22(S21(S20(s))))))))

At(t) ==
    /\ RHO = t.RHO /\ SIGMA = t.SIGMA /\ BETA = t.BETA
    /\ x = t.x /\ y = t.y /\ z = t.z
    /\ dx = t.dx /\ dy = t.dy /\ dz = t.dz
    /\ dt = t.dt /\ i = t.i /\ pc = t.pc /\ out = t.out

\* no second execution
NoTwin == [k |-> "none"]

Init == At(Locals) /\ twin = NoTwin

Start == pc = "start" /\ Load(Banner(Cur)) /\ UNCHANGED twin

\* a pass that may start from any earlier value of x
IterateRacy ==
    /\ pc = "loop" /\ i < LoopEnd
    /\ \E x0 \in {x, FromInt(1)} : Load(Body([Cur EXCEPT !.x = x0]))
    /\ UNCHANGED twin

Iterate == pc = "loop" /\ i < LoopEnd /\ Load(Body(Cur)) /\ UNCHANGED twin

\* the loop left through a panic
ExitPanics ==
    /\ pc = "loop" /\ ~(i < LoopEnd)
    /\ Load([Cur EXCEPT !.pc = "panic"]) /\ UNCHANGED twin

Exit ==
    /\ pc = "loop" /\ ~(i < LoopEnd)
    /\ Load([Cur EXCEPT !.pc = "done"]) /\ UNCHANGED twin

Next == Start \/ Iterate \/ Exit

Spec == Init /\ [][Next]_vars

\* the process runs until main returns
FairSpec == Spec /\ WF_vars(Next)

(***************************************************************************)
(* What the claims speak of.                                               *)
(***************************************************************************)
StepReports == SelectSeq(out, LAMBDA r : r.kind = "step")
InitReports == SelectSeq(out, LAMBDA r : r.kind = "init")

\* the number of lines printed before the initial-state report
BannerLines == Len(Banner(Locals).out) - 1

\* k thousandths as {:.3} prints them, 0 <= k < 1000
Millis(k) ==
    [neg |-> FALSE, int |-> <<0>>,
     frac |-> <<k \div 100, (k \div 10) % 10, k % 10>>]

\* n.dddddddd as {:.8} prints it, 0 <= d < 10^8
Dec8(n, d) ==
    [neg |-> FALSE, int |-> <<n>>,
     frac |-> [j \in 1..8 |-> (d \div 10^(8 - j)) % 10]]

\* the passes of the loop made so far
StepsApplied == i - 1

\* C1: in every pass of the loop the new (x, y, z) is
\* (x + dt*p2*(y - x), y + dt*(x*(p1 - z) - y), z + dt*(x*y - p3*z)) with every
\* x, y, z on the right the value before the pass, p1 = RHO = 10,
\* p2 = SIGMA = 8/3 and p3 = BETA = 28
C1_SnapshotUpdate ==
    [][(pc = "loop" /\ pc' = "loop") =>
         /\ RHO = FromInt(10) /\ SIGMA = Ratio(8, 3) /\ BETA = FromInt(28)
         /\ x' = Add(x, Mul(dt, Mul(SIGMA, Sub(y, x))))
         /\ y' = Add(y, Mul(dt, Sub(Mul(x, Sub(RHO, z)), y)))
         /\ z' = Add(z, Mul(dt, Sub(Mul(x, y), Mul(BETA, z))))]_vars

\* a pass has been made from a state in which x, y and z all differ
C1_Witness ==
    /\ pc = "loop" /\ i = 4
    /\ x # FromInt(1) /\ x # y /\ y # z

\* C2: from (1, 1, 1) with dt = 0.001 the first pass computes the derivative
\* (0, 8, -27) and leaves the state (1.0, 1.008, 0.973), printed as
\* 1.00000000, 1.00800000, 0.97300000; x is unchanged
C2_FirstStep ==
    (pc = "loop" /\ i = 2) =>
        /\ dx = Zero(0) /\ dy = FromInt(8) /\ dz = Neg(FromInt(27))
        /\ x = FromInt(1) /\ y = Ratio(1008, 1000) /\ z = Ratio(973, 1000)
        /\ out[Len(out)].vals =
              <<Millis(1), Dec8(1, 0), Dec8(1, 800000), Dec8(0, 97300000)>>

\* the first pass has been made and has moved y and z
C2_Witness ==
    /\ pc = "loop" /\ i = 2 /\ Len(StepReports) = 1
    /\ y # FromInt(1) /\ z # FromInt(1)

\* C3: one initial-state report, printed before any pass; then one step
\* report per index 1, 2, ... in increasing order, never more than the passes
\* made, none for index 0 or 100, and 99 of them when the run is over
C3_ReportCount ==
    LET n == Len(StepReports)
    IN  /\ pc = "start" => out = <<>>
        /\ pc # "start" =>
              /\ Len(InitReports) = 1
              /\ out[BannerLines + 1].kind = "init"
              /\ out[BannerLines + 1].vals = <<FromInt(1), FromInt(1), FromInt(1)>>
              /\ Len(out) = BannerLines + 1 + n
              /\ \A k \in 1..n :
                    /\ out[BannerLines + 1 + k].kind = "step"
                    /\ out[BannerLines + 1 + k].vals[1] = Millis(k)
              /\ n <= StepsApplied
              /\ n <= 99
        /\ \A k \in 1..Len(out) :
              out[k].kind = "step" => out[k].vals[1] \notin {Millis(0), Millis(100)}
        /\ pc = "done" => n = 99

\* the run is over and the reports of all its passes are out
C3_Witness == pc = "done" /\ Len(StepReports) = 99 /\ Len(InitReports) = 1

\* C4: the run ends, after exactly 99 passes; it is never in a state other
\* than before the loop, in the loop or normally ended, and no pass is made
\* for an index beyond 99
C4_Terminates ==
    /\ <>(pc = "done")
    /\ [](pc \in {"start", "loop", "done"})
    /\ [](pc = "done" => StepsApplied = 99 /\ Len(StepReports) = 99)
    /\ [](i <= 100 /\ (i >= 100 => ~ENABLED Iterate))

\* main has returned
C4_Witness == pc = "done" /\ i = 100

\* the recurrence of the forward Euler scheme on a triple v = <<x, y, z>>,
\* with the constants of the reference run
EulerStep(p) ==
    The({ << Add(v[1], Mul(h, Mul(p2, Sub(v[2], v[1])))),
             Add(v[2], Mul(h, Sub(Mul(v[1], Sub(p1, v[3])), v[2]))),
             Add(v[3], Mul(h, Sub(Mul(v[1], v[2]), Mul(p3, v[3])))) >> :
          v \in {p}, p1 \in {FromInt(10)}, p2 \in {Ratio(8, 3)},
          p3 \in {FromInt(28)}, h \in {Ratio(1, 1000)} })

\* the program beside the recurrence: twin.v is the recurrence applied twin.k
\* times to (1, 1, 1)
RefInit ==
    /\ At(Locals)
    /\ twin = [k |-> 0, v |-> <<FromInt(1), FromInt(1), FromInt(1)>>]

RefStart == pc = "start" /\ Load(Banner(Cur)) /\ UNCHANGED twin

RefIterate ==
    /\ pc = "loop" /\ i < LoopEnd
    /\ Load(Body(Cur))
    /\ twin' = [k |-> twin.k + 1, v |-> EulerStep(twin.v)]

RefExit ==
    /\ pc = "loop" /\ ~(i < LoopEnd)
    /\ Load([Cur EXCEPT !.pc = "done"]) /\ UNCHANGED twin

RefNext == RefStart \/ RefIterate \/ RefExit

SpecRef == RefInit /\ [][RefNext]_vars

\* C5: the k-th step report carries the elapsed time k * dt and the state
\* after the update, which is the recurrence applied k times to (1, 1, 1);
\* reports once printed stay as they are; the last report of the run carries
\* 0.099 and the 99th iterate
C5_ReportsPairTimeAndState ==
    /\ [](LET r == StepReports
              n == Len(r)
          IN  /\ n = twin.k /\ n = StepsApplied /\ n <= 99
              /\ pc # "start" => <<x, y, z>> = twin.v
              /\ n >= 1 =>
                   /\ r[n] = Line("step", "t = ",
                                  << Fixed(Mul(FromInt(n), Ratio(1, 1000)), 3),
                                     Fixed(twin.v[1], 8),
                                     Fixed(twin.v[2], 8),
                                     Fixed(twin.v[3], 8) >>)
                   /\ r[n].vals[1] = Millis(n)
              /\ pc = "done" => n = 99)
    /\ [][SubSeq(StepReports', 1, Len(StepReports)) = StepReports]_vars

\* the last report of the run is out
C5_Witness ==
    /\ pc = "done" /\ Len(StepReports) = 99 /\ twin.k = 99
    /\ StepReports[99].vals[1] = Millis(99)

\* C7: the run is deterministic: the state a step leads to is the only state
\* the program can step to
C7_Deterministic ==
    [][\A v \in {vars'} : ~ENABLED (Next /\ vars' # v)]_vars

\* half of the passes have been made
C7_Witness == pc = "loop" /\ i = 50 /\ Len(StepReports) = 49

\* C10: the three parameters and dt keep their initial values in every state;
\* a pass of the loop changes at most x, y, z, dx, dy, dz, i and the output
C10_ParametersFixed ==
    /\ [](/\ RHO = FromInt(10) /\ SIGMA = Ratio(8, 3)
          /\ BETA = FromInt(28) /\ dt = Ratio(1, 1000))
    /\ [][/\ RHO' = RHO /\ SIGMA' = SIGMA /\ BETA' = BETA /\ dt' = dt
          /\ (pc = "loop" /\ i' # i => pc' = pc /\ twin' = twin)]_vars

\* passes have been made, and have changed the state and the temporaries
C10_Witness ==
    /\ pc = "loop" /\ i = 10 /\ dx # Uninit
    /\ x # FromInt(1) /\ dt = Ratio(1, 1000)

(***************************************************************************)
(* Two executions side by side.  twin holds the locals of a second         *)
(* execution, as a record; both make their passes together.                *)
(***************************************************************************)
MaxGrid == 2
MaxLeft == 2

\* coordinates around the initial state: 1 + n/4
Grid == {Ratio(4 + n, 4) : n \in -MaxGrid..MaxGrid}

\* values a derivative temporary may be left holding
Leftovers == {FromInt(n) : n \in 1..MaxLeft}

Half(a) == Mul(a, Ratio(1, 2))

\* the locals at the head of the loop, in the state (gx, gy, gz)
AtLoop(gx, gy, gz) ==
    [Locals EXCEPT !.x = gx, !.y = gy, !.z = gz, !.pc = "loop"]

\* the program beside the sequential update, both from the initial state
SeqInit == At(Locals) /\ twin = Locals

SeqStart == pc = "start" /\ Load(Banner(Cur)) /\ twin' = Banner(twin)

SeqIterate ==
    /\ pc = "loop" /\ i < LoopEnd
    /\ Load(Body(Cur)) /\ twin' = BodySeq(twin)

SeqExit ==
    /\ pc = "loop" /\ ~(i < LoopEnd)
    /\ Load([Cur EXCEPT !.pc = "done"]) /\ twin' = [twin EXCEPT !.pc = "done"]

SeqNext == SeqStart \/ SeqIterate \/ SeqExit

SpecSeq == SeqInit /\ [][SeqNext]_vars

\* two executions in the same state (x, y, z), holding different leftovers in
\* dx, dy, dz and standing at different indices, make one pass each
LeftInit ==
    \E gx \in Grid, gy \in Grid, gz \in Grid, l \in Leftovers :
        /\ At([AtLoop(gx, gy, gz) EXCEPT
                 !.dx = FromInt(0), !.dy = FromInt(0), !.dz = FromInt(0)])
        /\ twin = [AtLoop(gx, gy, gz) EXCEPT
                     !.dx = l, !.dy = Neg(l), !.dz = l, !.i = LoopStart + 1]

LeftIterate ==
    /\ pc = "loop" /\ i = LoopStart
    /\ Load(Body(Cur)) /\ twin' = Body(twin)

SpecLeft == LeftInit /\ [][LeftIterate]_vars

\* the same state and parameters under dt and under dt / 2, one pass each;
\* twin.pre keeps the state before the pass
HalfInit ==
    \E gx \in Grid, gy \in Grid, gz \in Grid :
        /\ At(AtLoop(gx, gy, gz))
        /\ twin = [run |-> [AtLoop(gx, gy, gz) EXCEPT !.dt = Half(Locals.dt)],
                   pre |-> <<gx, gy, gz>>]

HalfIterate ==
    /\ pc = "loop" /\ i = LoopStart
    /\ Load(Body(Cur)) /\ twin' = [twin EXCEPT !.run = Body(twin.run)]

SpecHalf == HalfInit /\ [][HalfIterate]_vars

\* C8: the sequential update, in which dy reads the new x and dz the new x and
\* y, leaves (1, 1, 1) on another trajectory: after the first pass and after
\* every later one the two states differ, and so do the lines printed
C8_SequentialDiffers ==
    (pc # "start" /\ i >= 2) =>
        /\ <<x, y, z>> # <<twin.x, twin.y, twin.z>>
        /\ out[Len(out)] # twin.out[Len(twin.out)]

\* both formulations have made their first passes
C8_Witness ==
    /\ pc = "loop" /\ i = 4 /\ twin.i = 4
    /\ Len(out) = Len(twin.out) /\ x # twin.x

\* C6: the state after a pass depends only on the state before it, the
\* parameters and dt: executions that differ only in the leftovers in dx, dy,
\* dz and in the index are in the same state, with the same derivative, after
\* one pass
C6_LeftoversIgnored ==
    (i # LoopStart) =>
        /\ <<x, y, z>> = <<twin.x, twin.y, twin.z>>
        /\ <<dx, dy, dz>> = <<twin.dx, twin.dy, twin.dz>>

\* a pass has been made by two executions that differed before it
C6_Witness ==
    /\ i = LoopStart + 1 /\ twin.i = LoopStart + 2
    /\ Len(out) = 1 /\ Len(twin.out) = 1
    /\ out[1] # twin.out[1]
    /\ <<x, y, z>> # <<FromInt(1), FromInt(1), FromInt(1)>>

\* a < b for finite a and b
Less(a, b) == The({ d.k = "num" /\ d.s = 1 /\ d.m # <<>> : d \in {Sub(a, b)} })

Abs(a) == [a EXCEPT !.s = 0]

\* the unit in the last place of the larger of two finite values
Ulp(a, b) == Round(0, <<1>>, Max(a.e, b.e))

\* C9 as stated: each component of (state after - state before) under dt / 2
\* is half the component under dt
C9_HalvesDisplacement ==
    (i # LoopStart) =>
        /\ Sub(twin.run.x, twin.pre[1]) = Half(Sub(x, twin.pre[1]))
        /\ Sub(twin.run.y, twin.pre[2]) = Half(Sub(y, twin.pre[2]))
        /\ Sub(twin.run.z, twin.pre[3]) = Half(Sub(z, twin.pre[3]))

\* C9 amended: halving dt leaves the derivative as it is and halves the
\* increment dt * d added to each coordinate exactly; the displacement of
\* the rounded state under dt / 2 is within one unit in the last place of the
\* coordinate of half the displacement under dt
C9_HalvesIncrement ==
    (i # LoopStart) =>
        /\ <<twin.run.dx, twin.run.dy, twin.run.dz>> = <<dx, dy, dz>>
        /\ Mul(twin.run.dt, twin.run.dx) = Half(Mul(dt, dx))
        /\ Mul(twin.run.dt, twin.run.dy) = Half(Mul(dt, dy))
        /\ Mul(twin.run.dt, twin.run.dz) = Half(Mul(dt, dz))
        /\ \A c \in { <<x, twin.run.x, twin.pre[1]>>,
                      <<y, twin.run.y, twin.pre[2]>>,
                      <<z, twin.run.z, twin.pre[3]>> } :
              Less(Abs(Sub(Sub(c[2], c[3]), Half(Sub(c[1], c[3])))),
                   Ulp(c[1], c[2]))

\* one pass has been made under dt and under dt / 2 and has moved the state
C9_Witness ==
    /\ i = LoopStart + 1 /\ twin.run.i = LoopStart + 1
    /\ twin.run.dt = Half(dt)
    /\ y # twin.pre[2] /\ twin.run.y # twin.pre[2] /\ y # twin.run.y

====
